---- MODULE Spec2Model ----
(***************************************************************************)
(* Model of the runtime query builder of src/src/builder2.rs:              *)
(* QueryBuilder (text + optional argument buffer), the Separated list view *)
(* and fragment composition (push_fragment).                               *)
(*                                                                         *)
(* Text is a sequence of one-character strings, so that String::len,       *)
(* String::truncate and the decimal rendering of "$N" are computed, not    *)
(* assumed.  Option<T> is a sequence of length 0 (None) or 1 (Some).       *)
(* A panic (assert!/expect/unwrap) ends the call where it is raised: the   *)
(* builder keeps whatever the call had written before that point and the   *)
(* outcome is recorded in last.res.                                        *)
(***************************************************************************)
EXTENDS Integers, Sequences, FiniteSets, TLC

(* ---------------------------------------------------------------- bounds *)

\* Most mutating calls made on a builder between construction/reset and the next reset.
MaxOps == 3
\* The dialect's bound-parameter limit (65535 for Postgres), scaled down.
ParamLimit == 2

(* ---------------------------------------------------------------- inputs *)

Dialects == {"numbered", "ordinal"}

\* Bindable values; Unencodable stands for a value Encode rejects.
Unencodable == 0
Values == {1, 2}
BindInputs == Values \cup {Unencodable}

\* The token that starts a placeholder in the dialect.
Marker(d) == IF d = "numbered" THEN "$" ELSE "?"
HasPlaceholder(d, s) == \E k \in 1..Len(s) : s[k] = Marker(d)

\* Initial text handed to new; the last one holds a placeholder token.
Prefixes(d) == {<<>>, <<"s">>, <<Marker(d), "1">>}
\* Literal SQL handed to push / Separated::push / Separated::push_unseparated.
Lits == {<<"a">>, <<")">>}
Separators == {<<",">>}

(* ------------------------------------------------------------- Option<T> *)

None == <<>>
Some(x) == <<x>>
is_some(o) == Len(o) = 1
unwrap(o) == o[1]

(* ------------------------------------------------------ argument buffer  *)

\* Encode: a value becomes a typed wire entry.
Encode(v) == [ty |-> "INT4", wire |-> v]

Digit(d) ==
    CASE d = 0 -> "0" [] d = 1 -> "1" [] d = 2 -> "2" [] d = 3 -> "3"
      [] d = 4 -> "4" [] d = 5 -> "5" [] d = 6 -> "6" [] d = 7 -> "7"
      [] d = 8 -> "8" [] d = 9 -> "9"

RECURSIVE Decimal(_)
\* The decimal rendering of a natural number ("{}" of an integer).
Decimal(n) == IF n < 10 THEN <<Digit(n)>> ELSE Decimal(n \div 10) \o <<Digit(n % 10)>>

\* (initial text, arguments) pairs handed to with_arguments.
InitPairs(d) == { [p |-> <<"s">>, a |-> <<>>],
                  [p |-> <<Marker(d), "1">>, a |-> <<Encode(1)>>] }

\* Arguments::add: encode and append; on an encode error the buffer is untouched.
add(buf, v) ==
    IF v = Unencodable
    THEN [ok |-> FALSE, buf |-> buf]
    ELSE [ok |-> TRUE, buf |-> Append(buf, Encode(v))]

\* Arguments::format_placeholder: the token for the CURRENT count, appended
\* to the writer; fails when the dialect's parameter limit is exceeded.
format_placeholder(d, buf, w) ==
    IF Len(buf) > ParamLimit
    THEN [ok |-> FALSE, w |-> w]
    ELSE [ok |-> TRUE,
          w |-> IF d = "numbered" THEN w \o <<"$">> \o Decimal(Len(buf))
                ELSE w \o <<"?">>]

\* Arguments::reserve: a capacity hint.
reserve(buf, n) == buf

RECURSIVE add_all(_, _)
\* for argument in <items> { arguments.add(argument).expect(..) }
add_all(buf, items) ==
    IF items = <<>> THEN [ok |-> TRUE, buf |-> buf]
    ELSE LET r == add(buf, Head(items))
         IN  IF r.ok THEN add_all(r.buf, Tail(items)) ELSE r

(* ----------------------------------------------------------- QueryBuilder *)

Dead == [live |-> FALSE, query |-> <<>>, init_len |-> 0, arguments |-> None]

\* Variant of new that leaves init_len at 0, as Default::default does.
new_default_len(init) ==
    [live |-> TRUE, query |-> init, init_len |-> 0, arguments |-> Some(<<>>)]

new(init) ==
    [live |-> TRUE, query |-> init, init_len |-> Len(init), arguments |-> Some(<<>>)]

with_arguments(init, args) ==
    [live |-> TRUE, query |-> init, init_len |-> Len(init), arguments |-> Some(args)]

\* assert!(self.arguments.is_some(), ..)
sanity_check(b) == is_some(b.arguments)

\* Variant of push without the entry check.
push_unchecked(b, sql) == [res |-> "ok", b |-> [b EXCEPT !.query = @ \o sql]]

push(b, sql) ==
    IF ~sanity_check(b) THEN [res |-> "panic_check", b |-> b]
    ELSE [res |-> "ok", b |-> [b EXCEPT !.query = @ \o sql]]

\* Variant of push_bind that writes the placeholder and drops the value.
push_bind_orphan(d, b, value) ==
    IF ~sanity_check(b) THEN [res |-> "panic_check", b |-> b]
    ELSE LET a == add(unwrap(b.arguments), value) IN
         IF ~a.ok THEN [res |-> "panic_add", b |-> b]
         ELSE LET f == format_placeholder(d, a.buf, b.query)
              IN  IF ~f.ok THEN [res |-> "panic_fmt", b |-> b]
                  ELSE [res |-> "ok", b |-> [b EXCEPT !.query = f.w]]

\* Variant of push_bind that formats the placeholder before adding the value.
push_bind_format_first(d, b, value) ==
    IF ~sanity_check(b) THEN [res |-> "panic_check", b |-> b]
    ELSE LET f == format_placeholder(d, unwrap(b.arguments), b.query) IN
         IF ~f.ok THEN [res |-> "panic_fmt", b |-> b]
         ELSE LET a == add(unwrap(b.arguments), value)
              IN  IF ~a.ok THEN [res |-> "panic_add", b |-> [b EXCEPT !.query = f.w]]
                  ELSE [res |-> "ok", b |-> [b EXCEPT !.query = f.w, !.arguments = Some(a.buf)]]

\* Variant of push_bind that returns normally when the value cannot be encoded.
push_bind_silent_drop(d, b, value) ==
    IF ~sanity_check(b) THEN [res |-> "panic_check", b |-> b]
    ELSE LET a == add(unwrap(b.arguments), value) IN
         IF ~a.ok THEN [res |-> "ok", b |-> b]
         ELSE LET b1 == [b EXCEPT !.arguments = Some(a.buf)]
                  f  == format_placeholder(d, a.buf, b1.query)
              IN  IF ~f.ok THEN [res |-> "panic_fmt", b |-> b1]
                  ELSE [res |-> "ok", b |-> [b1 EXCEPT !.query = f.w]]

push_bind(d, b, value) ==
    IF ~sanity_check(b) THEN [res |-> "panic_check", b |-> b]
    ELSE LET a == add(unwrap(b.arguments), value) IN
         IF ~a.ok THEN [res |-> "panic_add", b |-> b]
         ELSE LET b1 == [b EXCEPT !.arguments = Some(a.buf)]
                  f  == format_placeholder(d, a.buf, b1.query)
              IN  IF ~f.ok THEN [res |-> "panic_fmt", b |-> b1]
                  ELSE [res |-> "ok", b |-> [b1 EXCEPT !.query = f.w]]

\* Variant of push_bind_steps that writes the placeholder before the value.
push_bind_steps_format_first(d, b, value) ==
    IF ~sanity_check(b) THEN <<b>>
    ELSE LET a == add(unwrap(b.arguments), value) IN
         IF ~a.ok THEN <<b>>
         ELSE LET f == format_placeholder(d, a.buf, b.query)
              IN  IF ~f.ok THEN <<b, [b EXCEPT !.arguments = Some(a.buf)]>>
                  ELSE <<b, [b EXCEPT !.query = f.w],
                         [b EXCEPT !.query = f.w, !.arguments = Some(a.buf)]>>

\* The builder states one push_bind call passes through, in program order:
\* at entry, after arguments.add(value), after format_placeholder. A panic
\* ends the sequence at the state written so far.
push_bind_steps(d, b, value) ==
    IF ~sanity_check(b) THEN <<b>>
    ELSE LET a == add(unwrap(b.arguments), value) IN
         IF ~a.ok THEN <<b>>
         ELSE LET b1 == [b EXCEPT !.arguments = Some(a.buf)]
                  f  == format_placeholder(d, a.buf, b1.query)
              IN  IF ~f.ok THEN <<b, b1>>
                  ELSE <<b, b1, [b1 EXCEPT !.query = f.w]>>

\* Variant of push_fragment that takes the arguments out of self.
push_fragment_takes_self(d, b, fragment) ==
    IF ~sanity_check(b) THEN [res |-> "panic_check", b |-> b]
    ELSE [res |-> "ok", b |-> [b EXCEPT !.query = @ \o fragment.query, !.arguments = None]]

\* Variant of push_fragment that ends after the copy loop, with no placeholder.
push_fragment_no_placeholder(d, b, fragment) ==
    IF ~sanity_check(b) THEN [res |-> "panic_check", b |-> b]
    ELSE IF ~is_some(fragment.arguments) THEN [res |-> "panic_taken", b |-> b]
    ELSE [res |-> "ok", b |-> [b EXCEPT !.query = @ \o fragment.query]]

\* fragment.arguments.take() leaves None in the fragment, and the loop then
\* iterates over that Option: over nothing.
push_fragment(d, b, fragment) ==
    IF ~sanity_check(b) THEN [res |-> "panic_check", b |-> b]
    ELSE IF ~is_some(fragment.arguments) THEN [res |-> "panic_taken", b |-> b]
    ELSE LET fragment_arguments == unwrap(fragment.arguments)
             taken == [fragment EXCEPT !.arguments = None]
             b1 == [b EXCEPT !.query = @ \o fragment.query]
             r  == reserve(unwrap(b1.arguments), Len(fragment_arguments))
             a  == add_all(r, taken.arguments)
         IN  IF ~a.ok THEN [res |-> "panic_add", b |-> b1]
             ELSE LET b2 == [b1 EXCEPT !.arguments = Some(a.buf)]
                      f  == format_placeholder(d, a.buf, b2.query)
                  IN  IF ~f.ok THEN [res |-> "panic_fmt", b |-> b2]
                      ELSE [res |-> "ok", b |-> [b2 EXCEPT !.query = f.w]]

\* String::truncate(n): no effect when n >= len.
\* Variant of truncate that cuts one character too many.
truncate_short(s, n) == IF n >= Len(s) THEN s ELSE SubSeq(s, 1, n - 1)

truncate(s, n) == IF n >= Len(s) THEN s ELSE SubSeq(s, 1, n)

\* Variant of reset that truncates the text and keeps the arguments.
\* Variant of reset that performs the sanity check and leaves a builder
\* without arguments as it is.
reset_checked(b) ==
    IF ~sanity_check(b) THEN b
    ELSE [b EXCEPT !.query = truncate(@, b.init_len), !.arguments = Some(<<>>)]

reset_keeps_arguments(b) == [b EXCEPT !.query = truncate(@, b.init_len)]

reset(b) == [b EXCEPT !.query = truncate(@, b.init_len), !.arguments = Some(<<>>)]

\* Variant of sql that returns the initial fragment only.
sql_initial(b) == SubSeq(b.query, 1, b.init_len)

sql(b) == b.query

into_sql(b) == b.query

\* self.arguments.unwrap(), then sqlx::QueryBuilder::with_arguments(query, wrapper)
into_sqlx_query_builder(b) ==
    IF ~is_some(b.arguments) THEN [res |-> "panic_unwrap", sql |-> <<>>, args |-> None]
    ELSE [res |-> "ok", sql |-> b.query, args |-> Some(unwrap(b.arguments))]

\* The non-consuming terminal operation the assertion message calls `.build()`:
\* it takes the arguments out and leaves the builder Finalized.
finalize(b) ==
    IF ~is_some(b.arguments) THEN [res |-> "panic_taken", b |-> b, args |-> None]
    ELSE [res |-> "ok", b |-> [b EXCEPT !.arguments = None], args |-> b.arguments]

\* How a call ends.  Every failure path of the builder is an assert!, an
\* expect or an unwrap, and every method returns &mut Self or a value, never
\* a Result: a call either returns or panics.
Outcome(res) == IF res = "ok" THEN "returned" ELSE "panic"

(* -------------------------------------------------------------- Separated *)

\* start, astart, log and unwound are history: the text and argument lengths
\* when the view was made, the calls that returned, and whether one panicked.
NoView == [active |-> FALSE, separator |-> <<>>, push_separator |-> FALSE,
           start |-> 0, astart |-> 0, log |-> <<>>, unwound |-> FALSE]

\* QueryBuilder::separated: the view starts with push_separator = false.
separated(b, sep) ==
    [active |-> TRUE, separator |-> sep, push_separator |-> FALSE,
     start |-> Len(b.query), astart |-> Len(unwrap(b.arguments)), log |-> <<>>,
     unwound |-> FALSE]

\* Variant of Separated::push that writes the separator before every element.
Separated_push_always(v, b, s) ==
    LET r == push(b, v.separator \o s)
    IN  [res |-> r.res, b |-> r.b, push_separator |-> TRUE]

Separated_push(v, b, s) ==
    IF v.push_separator
    THEN LET r == push(b, v.separator \o s)
         IN  [res |-> r.res, b |-> r.b, push_separator |-> v.push_separator]
    ELSE LET r == push(b, s)
         IN  [res |-> r.res, b |-> r.b,
              push_separator |-> IF r.res = "ok" THEN TRUE ELSE v.push_separator]

\* Variant of Separated::push_unseparated that sets push_separator.
Separated_push_unseparated_sets_flag(v, b, s) ==
    LET r == push(b, s)
    IN  [res |-> r.res, b |-> r.b, push_separator |-> TRUE]

Separated_push_unseparated(v, b, s) ==
    LET r == push(b, s)
    IN  [res |-> r.res, b |-> r.b, push_separator |-> v.push_separator]

\* Variant of Separated::push_bind that never sets push_separator.
Separated_push_bind_noflag(d, v, b, value) ==
    LET r1 == IF v.push_separator THEN push(b, v.separator) ELSE [res |-> "ok", b |-> b]
    IN  IF r1.res # "ok"
        THEN [res |-> r1.res, b |-> r1.b, push_separator |-> v.push_separator]
        ELSE LET r2 == push_bind(d, r1.b, value)
             IN  [res |-> r2.res, b |-> r2.b, push_separator |-> v.push_separator]

\* Variant of Separated::push_bind_unseparated that applies the separator logic.
Separated_push_bind_unseparated_sep(d, v, b, value) ==
    LET r1 == IF v.push_separator THEN push(b, v.separator) ELSE [res |-> "ok", b |-> b]
    IN  IF r1.res # "ok"
        THEN [res |-> r1.res, b |-> r1.b, push_separator |-> v.push_separator]
        ELSE LET r2 == push_bind(d, r1.b, value)
             IN  [res |-> r2.res, b |-> r2.b, push_separator |-> v.push_separator]

Separated_push_bind(d, v, b, value) ==
    LET r1 == IF v.push_separator THEN push(b, v.separator) ELSE [res |-> "ok", b |-> b]
    IN  IF r1.res # "ok"
        THEN [res |-> r1.res, b |-> r1.b, push_separator |-> v.push_separator]
        ELSE LET r2 == push_bind(d, r1.b, value)
             IN  [res |-> r2.res, b |-> r2.b,
                  push_separator |-> IF r2.res = "ok" THEN TRUE ELSE v.push_separator]

Separated_push_bind_unseparated(d, v, b, value) ==
    LET r == push_bind(d, b, value)
    IN  [res |-> r.res, b |-> r.b, push_separator |-> v.push_separator]

(* -------------------------------------------------------------- fragments *)

\* The builders handed to push_fragment, each built by the calls written here.
Fragments(d) ==
    { new(<<"f">>),
      push_bind(d, push_bind(d, new(<<>>), 2).b, 1).b,
      finalize(new(<<"f">>)).b }

(* ------------------------------------------------------------------ state *)

VARIABLES
    dialect,   \* the builder's DB type parameter, fixed for the run
    qb,        \* the builder: [live, query, init_len, arguments]
    view,      \* the Separated view borrowing the builder, when one is alive
    last,      \* the last call: op, outcome, input, builder before, fragment, result
    init,      \* history: the initial text the builder was constructed with
    epoch,     \* history: what made the current argument buffer (constructor or reset)
    cleared,   \* history: the last reset had text or arguments to discard
    tainted,   \* history: a marker came from literal text or a fragment, or a call panicked
    nops,      \* history: mutating calls since construction / reset
    pushes_only, \* history: made by new(), and only push / push_bind called since
    emit       \* history: per argument-adding push_bind, where its placeholder went

vars == <<dialect, qb, view, last, init, epoch, cleared, tainted, nops, pushes_only, emit>>

NoOut == [sql |-> <<>>, args |-> None]

Call(op, res, arg, pre, frag, o) ==
    [op |-> op, res |-> res, arg |-> arg, pre |-> pre, frag |-> frag, out |-> o]

\* The builder exists and is not exclusively borrowed by the view.
Free == qb.live /\ ~view.active

\* The record of a push_bind call that got past add: the index of its
\* argument and the offset of its placeholder (0 when none was written).
EmitAfter(e, r, before, at) ==
    IF r.res = "ok"
    THEN Append(e, [arg |-> Len(unwrap(r.b.arguments)), pos |-> at + 1])
    ELSE IF r.res = "panic_fmt" /\ Len(unwrap(r.b.arguments)) > Len(unwrap(before.arguments))
    THEN Append(e, [arg |-> Len(unwrap(r.b.arguments)), pos |-> 0])
    ELSE e

\* Room for one more mutating call, and for one more argument.
Room == nops < MaxOps
ArgRoom(b) == is_some(b.arguments) => Len(unwrap(b.arguments)) <= ParamLimit + 1
Count(r) == IF r.b = qb THEN nops ELSE nops + 1

Init ==
    /\ dialect \in Dialects
    /\ qb = Dead
    /\ view = NoView
    /\ last = Call("init", "ok", <<>>, Dead, Dead, NoOut)
    /\ init = <<>>
    /\ epoch = "none"
    /\ cleared = FALSE
    /\ tainted = FALSE
    /\ nops = 0
    /\ pushes_only = FALSE
    /\ emit = <<>>

(* ---------------------------------------------------------------- actions *)

New(p) ==
    /\ ~qb.live
    /\ qb' = new(p)
    /\ init' = p
    /\ epoch' = "new"
    /\ pushes_only' = TRUE
    /\ cleared' = FALSE
    /\ tainted' = HasPlaceholder(dialect, p)
    /\ nops' = 0
    /\ emit' = <<>>
    /\ last' = Call("new", "ok", p, Dead, Dead, NoOut)
    /\ UNCHANGED <<dialect, view>>

WithArguments(p, a) ==
    /\ ~qb.live
    /\ qb' = with_arguments(p, a)
    /\ init' = p
    /\ epoch' = "with_arguments"
    /\ pushes_only' = FALSE
    /\ cleared' = FALSE
    /\ tainted' = HasPlaceholder(dialect, p)
    /\ nops' = 0
    /\ emit' = <<>>
    /\ last' = Call("with_arguments", "ok", p, Dead, Dead, NoOut)
    /\ UNCHANGED <<dialect, view>>

Push(s) ==
    /\ Free
    /\ Room
    /\ LET r == push(qb, s) IN
       /\ qb' = r.b
       /\ tainted' = (tainted \/ r.res # "ok" \/ HasPlaceholder(dialect, s))
       /\ nops' = Count(r)
       /\ last' = Call("push", r.res, s, qb, Dead, NoOut)
    /\ UNCHANGED <<dialect, view, init, epoch, cleared, pushes_only, emit>>

PushBind(value) ==
    /\ Free
    /\ Room
    /\ LET r == push_bind(dialect, qb, value) IN
       /\ ArgRoom(r.b)
       /\ qb' = r.b
       /\ tainted' = (tainted \/ r.res # "ok")
       /\ nops' = Count(r)
       /\ emit' = EmitAfter(emit, r, qb, Len(qb.query))
       /\ last' = Call("push_bind", r.res, <<value>>, qb, Dead, NoOut)
    /\ UNCHANGED <<dialect, view, init, epoch, cleared, pushes_only>>

\* The fragment is passed by value: it is gone after the call, however it ends.
PushFragment(fragment) ==
    /\ Free
    /\ Room
    /\ LET r == push_fragment(dialect, qb, fragment) IN
       /\ qb' = r.b
       /\ tainted' = TRUE
       /\ nops' = Count(r)
       /\ last' = Call("push_fragment", r.res, <<>>, qb, fragment, NoOut)
    /\ pushes_only' = FALSE
    /\ UNCHANGED <<dialect, view, init, epoch, cleared, emit>>

SeparatedStart(sep) ==
    /\ Free
    /\ view' = IF sanity_check(qb) THEN separated(qb, sep) ELSE view
    /\ tainted' = (tainted \/ ~sanity_check(qb))
    /\ last' = Call("separated", IF sanity_check(qb) THEN "ok" ELSE "panic_check",
                    sep, qb, Dead, NoOut)
    /\ pushes_only' = FALSE
    /\ UNCHANGED <<dialect, qb, init, epoch, cleared, nops, emit>>

\* One call on the view: r is what the method computed.
ViewCall(op, r, arg, e) ==
    /\ Room
    /\ ArgRoom(r.b)
    /\ qb' = r.b
    /\ view' = [view EXCEPT !.push_separator = r.push_separator,
                            !.log = IF r.res = "ok" THEN Append(@, [m |-> op, x |-> arg]) ELSE @,
                            !.unwound = (@ \/ r.res # "ok")]
    /\ tainted' = (tainted \/ r.res # "ok" \/ (op \in {"Separated::push", "Separated::push_unseparated"}
                                               /\ HasPlaceholder(dialect, arg)))
    /\ nops' = Count(r)
    /\ emit' = e
    /\ last' = Call(op, r.res, arg, qb, Dead, NoOut)
    /\ UNCHANGED <<dialect, init, epoch, cleared, pushes_only>>

SepPush(s) ==
    /\ view.active
    /\ ViewCall("Separated::push", Separated_push(view, qb, s), s, emit)

SepPushUnseparated(s) ==
    /\ view.active
    /\ ViewCall("Separated::push_unseparated", Separated_push_unseparated(view, qb, s), s, emit)

SepPushBind(value) ==
    /\ view.active
    /\ LET r == Separated_push_bind(dialect, view, qb, value)
           at == Len(qb.query) + (IF view.push_separator THEN Len(view.separator) ELSE 0)
       IN  ViewCall("Separated::push_bind", r, <<value>>, EmitAfter(emit, r, qb, at))

SepPushBindUnseparated(value) ==
    /\ view.active
    /\ LET r == Separated_push_bind_unseparated(dialect, view, qb, value)
       IN  ViewCall("Separated::push_bind_unseparated", r, <<value>>,
                    EmitAfter(emit, r, qb, Len(qb.query)))

\* The view goes out of scope and the borrow ends.
SepDrop ==
    /\ view.active
    /\ view' = NoView
    /\ last' = Call("drop_view", "ok", <<>>, qb, Dead, NoOut)
    /\ UNCHANGED <<dialect, qb, init, epoch, cleared, tainted, nops, pushes_only, emit>>

Reset ==
    /\ Free
    /\ qb' = reset(qb)
    /\ epoch' = "reset"
    /\ pushes_only' = FALSE
    /\ cleared' = (Len(qb.query) > qb.init_len \/ qb.arguments # Some(<<>>))
    /\ tainted' = HasPlaceholder(dialect, init)
    /\ nops' = 0
    /\ emit' = <<>>
    /\ last' = Call("reset", "ok", <<>>, qb, Dead, NoOut)
    /\ UNCHANGED <<dialect, view, init>>

Sql ==
    /\ Free
    /\ last' = Call("sql", "ok", <<>>, qb, Dead, [sql |-> sql(qb), args |-> None])
    /\ UNCHANGED <<dialect, qb, view, init, epoch, cleared, tainted, nops, pushes_only, emit>>

\* into_sql(self): the builder is consumed.
IntoSql ==
    /\ Free
    /\ qb' = Dead
    /\ last' = Call("into_sql", "ok", <<>>, qb, Dead, [sql |-> into_sql(qb), args |-> None])
    /\ pushes_only' = FALSE
    /\ UNCHANGED <<dialect, view, init, epoch, cleared, tainted, nops, emit>>

\* into_sqlx_query_builder(self): the builder is consumed.
IntoSqlxQueryBuilder ==
    /\ Free
    /\ LET r == into_sqlx_query_builder(qb) IN
       /\ qb' = Dead
       /\ last' = Call("into_sqlx_query_builder", r.res, <<>>, qb, Dead,
                       [sql |-> r.sql, args |-> r.args])
    /\ pushes_only' = FALSE
    /\ UNCHANGED <<dialect, view, init, epoch, cleared, tainted, nops, emit>>

Finalize ==
    /\ Free
    /\ LET r == finalize(qb) IN
       /\ qb' = r.b
       /\ tainted' = (tainted \/ r.res # "ok")
       /\ last' = Call("finalize", r.res, <<>>, qb, Dead, [sql |-> qb.query, args |-> r.args])
    /\ pushes_only' = FALSE
    /\ UNCHANGED <<dialect, view, init, epoch, cleared, nops, emit>>

Next ==
    \/ \E p \in Prefixes(dialect) : New(p)
    \/ \E c \in InitPairs(dialect) : WithArguments(c.p, c.a)
    \/ \E s \in Lits : Push(s)
    \/ \E v \in BindInputs : PushBind(v)
    \/ \E f \in Fragments(dialect) : PushFragment(f)
    \/ \E sep \in Separators : SeparatedStart(sep)
    \/ \E s \in Lits : SepPush(s)
    \/ \E s \in Lits : SepPushUnseparated(s)
    \/ \E v \in BindInputs : SepPushBind(v)
    \/ \E v \in BindInputs : SepPushBindUnseparated(v)
    \/ SepDrop
    \/ Reset
    \/ Sql
    \/ IntoSql
    \/ IntoSqlxQueryBuilder
    \/ Finalize

Spec == Init /\ [][Next]_vars


(* ----------------------------------------------------------------- claims *)

\* The placeholder token for the n-th argument, as the dialect writes it.
Token(d, n) == IF d = "numbered" THEN <<"$">> \o Decimal(n) ELSE <<"?">>

\* The offsets in s at which a placeholder starts.
Marks(d, s) == {k \in 1..Len(s) : s[k] = Marker(d)}

args(b) == unwrap(b.arguments)

\* C1 (as claimed): for a builder made by new() and any sequence of push (of
\* placeholder-free text) and push_bind calls, in every reachable state the
\* text holds as many placeholders as the buffer holds arguments, and the k-th
\* placeholder in text order is the one written by the push_bind call that
\* added argument k. The initial text is taken to be free of placeholders,
\* like the pushed text; the states after a push_bind that panicked are
\* reachable states.
C1_EveryStateBalanced ==
    (qb.live /\ pushes_only /\ ~HasPlaceholder(dialect, init)) =>
        LET ph == Marks(dialect, qb.query) IN
        /\ is_some(qb.arguments)
        /\ Cardinality(ph) = Len(args(qb))
        /\ Len(emit) = Len(args(qb))
        /\ \A k \in 1..Len(emit) :
              /\ emit[k].arg = k
              /\ emit[k].pos \in ph
              /\ Cardinality({j \in ph : j <= emit[k].pos}) = k

\* C1 (calls that returned): the same balance and correspondence, once the
\* states after a panicked call are left out.
C1_PlaceholdersMatchArguments ==
    (qb.live /\ epoch = "new" /\ ~tainted /\ is_some(qb.arguments)) =>
        LET ph == Marks(dialect, qb.query) IN
        /\ Cardinality(ph) = Len(args(qb))
        /\ Len(emit) = Len(args(qb))
        /\ \A k \in 1..Len(emit) :
              /\ emit[k].arg = k
              /\ emit[k].pos \in ph
              /\ Cardinality({j \in ph : j <= emit[k].pos}) = k

\* C1 witness: two push_bind calls with a push between them, on a builder made by new().
C1_Witness ==
    /\ qb.live /\ epoch = "new" /\ ~tainted /\ is_some(qb.arguments)
    /\ Len(args(qb)) = 2
    /\ last.op = "push_bind" /\ last.res = "ok"
    /\ \E k \in 1..Len(qb.query) : k > qb.init_len /\ qb.query[k] = "a"
    /\ Len(qb.query) > emit[2].pos /\ emit[1].pos + 2 < emit[2].pos

\* C2: reset() followed by the terminal operation yields the initial text and
\* an empty argument list, whatever was done to the builder before.
C2_ResetThenTerminal ==
    (epoch = "reset" /\ nops = 0 /\ last.res = "ok") =>
        /\ last.op = "into_sqlx_query_builder" =>
              last.out = [sql |-> init, args |-> Some(<<>>)]
        /\ last.op = "into_sql" => last.out.sql = init

\* C2 witness: the terminal operation right after a reset that discarded text and arguments.
C2_Witness ==
    /\ epoch = "reset" /\ nops = 0 /\ cleared
    /\ last.op = "into_sqlx_query_builder" /\ last.res = "ok"
    /\ init # <<>>
    /\ last.out.sql = init

RECURSIVE Join(_, _)
\* e1 s e2 s ... s en for the elements of a log.
Join(log, sep) ==
    IF Len(log) = 1 THEN log[1].x
    ELSE Join(SubSeq(log, 1, Len(log) - 1), sep) \o sep \o log[Len(log)].x

Appended == SubSeq(qb.query, view.start + 1, Len(qb.query))

\* C3: on a fresh view, n >= 1 elements pushed with Separated::push append
\* exactly e1 s e2 s ... s en: no separator before the first or after the last.
C3_SeparatedPushJoins ==
    (/\ view.active /\ ~view.unwound /\ Len(view.log) >= 1
     /\ \A k \in 1..Len(view.log) : view.log[k].m = "Separated::push") =>
        Appended = Join(view.log, view.separator)

\* C3 witness: three elements pushed on one view, the first two different.
C3_Witness ==
    /\ view.active /\ ~view.unwound /\ Len(view.log) = 3
    /\ \A k \in 1..3 : view.log[k].m = "Separated::push"
    /\ view.log[1].x # view.log[2].x
    /\ last.op = "Separated::push" /\ last.res = "ok"

Binds(log) == {k \in 1..Len(log) : log[k].m = "Separated::push_bind"}

RECURSIVE Items(_, _, _, _)
\* The text of a list of separated elements: literals as given, bound values
\* as the placeholders numbered from a + 1.
Items(d, sep, log, a) ==
    IF log = <<>> THEN <<>>
    ELSE LET n == Len(log)
             e == log[n]
             item == IF e.m = "Separated::push" THEN e.x
                     ELSE Token(d, a + Cardinality(Binds(log)))
         IN  IF n = 1 THEN item
             ELSE Items(d, sep, SubSeq(log, 1, n - 1), a) \o sep \o item

RECURSIVE Bound(_)
\* The encoded values of the bind calls of a log, in call order.
Bound(log) ==
    IF log = <<>> THEN <<>>
    ELSE LET n == Len(log)
             rest == Bound(SubSeq(log, 1, n - 1))
         IN  IF log[n].m = "Separated::push_bind" THEN Append(rest, Encode(log[n].x[1]))
             ELSE rest

\* The logs C4 is about: n >= 1 separated pushes / binds, then at most one
\* push_unseparated.
C4_Shape(log, n) ==
    /\ n >= 1
    /\ n <= Len(log)
    /\ Len(log) <= n + 1
    /\ \A k \in 1..n : log[k].m \in {"Separated::push", "Separated::push_bind"}
    /\ \A k \in (n + 1)..Len(log) : log[k].m = "Separated::push_unseparated"

\* C4: on a numbered dialect, a fresh view over a builder made by new(prefix):
\* n push_bind calls (or push and push_bind calls mixed) and then
\* push_unseparated(closing) leave prefix + "$1" sep ... sep "$n" + closing as
\* the text, one separator between consecutive elements whichever method
\* pushed them, and the bound values in call order as the arguments.
C4_SeparatedPushBind ==
    (/\ view.active /\ ~view.unwound /\ dialect = "numbered"
     /\ epoch = "new" /\ view.start = Len(init) /\ view.astart = 0) =>
        \A n \in 1..Len(view.log) :
            C4_Shape(view.log, n) =>
                /\ qb.query = init \o Items(dialect, view.separator, SubSeq(view.log, 1, n), 0)
                                   \o (IF Len(view.log) > n THEN view.log[n + 1].x ELSE <<>>)
                /\ args(qb) = Bound(view.log)

\* C4 witness: push_bind(v1), push_bind(v2), push_unseparated(")") after new("s").
C4_Witness ==
    /\ view.active /\ ~view.unwound /\ dialect = "numbered"
    /\ epoch = "new" /\ view.start = Len(init) /\ view.astart = 0
    /\ init = <<"s">>
    /\ Len(view.log) = 3
    /\ view.log[1].m = "Separated::push_bind"
    /\ view.log[2].m = "Separated::push_bind"
    /\ view.log[3] = [m |-> "Separated::push_unseparated", x |-> <<")">>]
    /\ view.log[1].x # view.log[2].x

\* C5: push_unseparated appends exactly the text it is given and
\* push_bind_unseparated exactly one placeholder: neither writes the
\* separator, whether push_separator is false or true.
C5_UnseparatedNoSeparator ==
    /\ last.op = "Separated::push_unseparated" =>
          qb.query = (IF last.res = "ok" THEN last.pre.query \o last.arg ELSE last.pre.query)
    /\ last.op = "Separated::push_bind_unseparated" =>
          qb.query = (IF last.res = "ok"
                      THEN last.pre.query \o Token(dialect, Len(args(last.pre)) + 1)
                      ELSE last.pre.query)

\* C5 witness: push_bind_unseparated on a view that has already pushed an element.
C5_Witness ==
    /\ view.active /\ view.push_separator
    /\ last.op = "Separated::push_bind_unseparated" /\ last.res = "ok"
    /\ Len(view.log) >= 2
    /\ view.log[Len(view.log) - 1].m = "Separated::push_unseparated"

\* The push_bind calls of the current epoch that returned.
Returned == {k \in 1..Len(emit) : emit[k].pos > 0}

\* C6: on a numbered dialect, with the arguments empty at construction or
\* reset, the k-th push_bind call that returns appends "$k", counting from 1,
\* whatever is pushed between the calls.
C6_NumberedFromOne ==
    (/\ dialect = "numbered" /\ epoch \in {"new", "reset"}
     /\ last.op = "push_bind" /\ last.res = "ok") =>
        /\ Cardinality(Returned) >= 1
        /\ qb.query = last.pre.query \o <<"$">> \o Decimal(Cardinality(Returned))

\* C6 witness: the second push_bind after a reset, with a push between the two.
C6_Witness ==
    /\ dialect = "numbered" /\ epoch = "reset" /\ cleared
    /\ last.op = "push_bind" /\ last.res = "ok"
    /\ Cardinality(Returned) = 2
    /\ emit[1].pos + 2 < emit[2].pos

\* C7: after push_fragment, self's arguments are its own followed by the
\* fragment's, in order.
C7_FragmentArgumentsAppended ==
    (last.op = "push_fragment" /\ last.res = "ok") =>
        args(qb) = args(last.pre) \o args(last.frag)

\* C8: after push_fragment, self's text is its old text followed by exactly
\* one copy of the fragment's text.
C8_FragmentTextAppendedOnce ==
    (last.op = "push_fragment" /\ last.res = "ok") =>
        qb.query = last.pre.query \o last.frag.query

MutatingOps ==
    {"push", "push_bind", "push_fragment", "separated", "Separated::push",
     "Separated::push_unseparated", "Separated::push_bind",
     "Separated::push_bind_unseparated"}

\* The call was made on a builder whose arguments had been taken.
OnFinalized == last.pre.live /\ ~is_some(last.pre.arguments)

\* The views a Separated method could hold on builder b: any separator, the
\* flag clear or set.
ViewsOn(b) ==
    { [active |-> TRUE, separator |-> sep, push_separator |-> f,
       start |-> Len(b.query), astart |-> 0, log |-> <<>>, unwound |-> FALSE] :
         sep \in Separators, f \in BOOLEAN }

\* A call of push, push_bind, push_fragment or separated on a Finalized
\* builder fails at its entry check and leaves the builder as it was, and no
\* view is made; so does every Separated method that reaches a Finalized
\* builder, with the flag clear or set.
C9_MutationRefused ==
    /\ (OnFinalized /\ last.op \in MutatingOps) =>
          (last.res = "panic_check" /\ qb = last.pre /\ ~view.active)
    /\ (qb.live /\ ~is_some(qb.arguments)) =>
          \A v \in ViewsOn(qb) :
             /\ \A s \in Lits :
                   /\ Separated_push(v, qb, s)
                         = [res |-> "panic_check", b |-> qb,
                            push_separator |-> v.push_separator]
                   /\ Separated_push_unseparated(v, qb, s)
                         = [res |-> "panic_check", b |-> qb,
                            push_separator |-> v.push_separator]
             /\ \A value \in BindInputs :
                   /\ Separated_push_bind(dialect, v, qb, value)
                         = [res |-> "panic_check", b |-> qb,
                            push_separator |-> v.push_separator]
                   /\ Separated_push_bind_unseparated(dialect, v, qb, value)
                         = [res |-> "panic_check", b |-> qb,
                            push_separator |-> v.push_separator]

\* C9 (as claimed): on a Finalized builder every mutating entry point and
\* every Separated method fails at its entry check and changes nothing, and
\* the calls that succeed in that state are reset() and sql() and no other.
C9_OnlyResetAndSqlSucceed ==
    /\ C9_MutationRefused
    /\ OnFinalized => (last.res = "ok" <=> last.op \in {"reset", "sql"})

\* C9 (amended): on a Finalized builder every mutating entry point and every
\* Separated method fails at its entry check and changes nothing; the calls
\* that succeed are reset(), sql() and the consuming into_sql(), which has no
\* check and returns the text; into_sqlx_query_builder and a second finalize
\* fail on the absent arguments.
C9_FinalizedRejectsMutation ==
    /\ C9_MutationRefused
    /\ OnFinalized =>
          /\ last.res = "ok" <=> last.op \in {"reset", "sql", "into_sql"}
          /\ last.op = "reset" => is_some(qb.arguments)
          /\ last.op = "sql" => (last.out.sql = last.pre.query /\ qb = last.pre)
          /\ last.op = "into_sql" => (last.out.sql = last.pre.query /\ ~qb.live)
          /\ last.op = "into_sqlx_query_builder" => last.res = "panic_unwrap"
          /\ last.op = "finalize" => (last.res = "panic_taken" /\ qb = last.pre)

\* C9 witness: push_fragment refused on a Finalized builder that holds text.
C9_Witness ==
    /\ OnFinalized
    /\ last.op = "push_fragment" /\ last.res = "panic_check"
    /\ Len(last.pre.query) > last.pre.init_len
    /\ last.frag.query # <<>>

\* C10: a push_bind that fails leaves the text and the arguments as they were.
C10_FailedPushBindChangesNothing ==
    (last.op = "push_bind" /\ last.res # "ok") => qb = last.pre

\* C11 (as claimed): a push_bind that fails in add or in format_placeholder
\* ends with an error the caller can recover from, not with the fatal outcome
\* of a call on a Finalized builder.
C11_FailureIsRecoverable ==
    (last.op = "push_bind" /\ last.res \in {"panic_add", "panic_fmt"}) =>
        Outcome(last.res) = "error"

\* C11 (amended): on a builder whose arguments are present, push_bind panics
\* in add when the value cannot be encoded and in format_placeholder when the
\* parameter limit is exceeded, each told apart from the Finalized check only
\* by its message; it returns only with the value appended to the buffer.
C11_FailurePanicsValueKept ==
    (last.op = "push_bind" /\ is_some(last.pre.arguments)) =>
        LET value == last.arg[1]
            before == args(last.pre)
        IN  /\ value = Unencodable => last.res = "panic_add"
            /\ (value # Unencodable /\ Len(before) >= ParamLimit) =>
                  (last.res = "panic_fmt" /\ args(qb) = Append(before, Encode(value)))
            /\ last.res = "ok" => args(qb) = Append(before, Encode(value))
            /\ last.res # "ok" => (Outcome(last.res) = "panic" /\ last.res # "panic_check")

\* C11 witness: a value that cannot be encoded, bound when the buffer is at the limit.
C11_Witness ==
    /\ last.op = "push_bind" /\ is_some(last.pre.arguments)
    /\ last.arg = <<Unencodable>>
    /\ Len(args(last.pre)) = ParamLimit
    /\ last.res = "panic_add"

\* C12: sql() succeeds in every state of the builder, Finalized included,
\* returns exactly the current text, and changes neither the text, the
\* initial length nor the argument slot.
C12_SqlReadsText ==
    last.op = "sql" =>
        /\ last.res = "ok"
        /\ last.out.sql = last.pre.query
        /\ qb = last.pre

\* C12 witness: sql() on a Finalized builder whose text has grown past the initial text.
C12_Witness ==
    /\ last.op = "sql" /\ last.res = "ok"
    /\ OnFinalized
    /\ Len(last.pre.query) > last.pre.init_len
    /\ last.pre.init_len > 0
    /\ last.out.sql = qb.query

\* C13: a builder that can still be called has its argument slot absent only
\* after a terminal operation took it, and until the next reset; push,
\* push_bind, push_fragment, separated and the Separated methods leave a
\* present slot present, and reset always leaves it present.  (into_sql and
\* into_sqlx_query_builder consume the builder, as does being merged as a
\* fragment: nothing is left to call.)
C13_ArgumentsPresent ==
    /\ (qb.live /\ ~is_some(qb.arguments)) => (last.op = "finalize" \/ OnFinalized)
    /\ (last.op \in MutatingOps \cup {"sql", "drop_view"} /\ is_some(last.pre.arguments)) =>
          (qb.live /\ is_some(qb.arguments))
    /\ last.op = "reset" => (qb.live /\ is_some(qb.arguments))
    /\ last.op \in {"into_sql", "into_sqlx_query_builder"} => ~qb.live

\* C13 witness: the slot of a builder holding an argument, absent after finalize.
C13_Witness ==
    /\ qb.live /\ ~is_some(qb.arguments)
    /\ last.op = "finalize" /\ last.res = "ok"
    /\ is_some(last.pre.arguments)
    /\ Len(args(last.pre)) >= 1
    /\ nops >= 2

\* C14: init_len is the length of the initial text given at construction, and
\* no later call changes it.
C14_InitLenFixed ==
    /\ qb.live => qb.init_len = Len(init)
    /\ (qb.live /\ last.pre.live) => qb.init_len = last.pre.init_len

\* C14 witness: a builder with a non-empty initial text, grown again after a
\* reset that discarded text.
C14_Witness ==
    /\ qb.live /\ last.pre.live
    /\ epoch = "reset" /\ cleared
    /\ qb.init_len > 0
    /\ Len(qb.query) > qb.init_len
    /\ last.op \in MutatingOps /\ last.res = "ok"

\* C15: a push_fragment call that returns has appended, after the fragment's
\* text, exactly one placeholder, whatever the fragment's argument count; on
\* the numbered dialect it carries self's argument count at that moment.
\* A call that panics in format_placeholder has appended the fragment's text
\* alone, and one refused at entry nothing.
C15_FragmentExtraPlaceholder ==
    last.op = "push_fragment" =>
        /\ last.res = "ok" =>
              qb.query = last.pre.query \o last.frag.query
                            \o Token(dialect, Len(args(qb)))
        /\ last.res = "panic_fmt" => qb.query = last.pre.query \o last.frag.query
        /\ last.res \in {"panic_check", "panic_taken"} => qb.query = last.pre.query

\* C15 witness: a fragment without arguments merged into a builder holding two.
C15_Witness ==
    /\ last.op = "push_fragment" /\ last.res = "ok"
    /\ dialect = "numbered"
    /\ args(last.frag) = <<>>
    /\ last.frag.query # <<>>
    /\ Len(args(qb)) = 2
    /\ SubSeq(qb.query, Len(qb.query) - 1, Len(qb.query)) = <<"$", "2">>

\* C16: within push_bind the value enters the argument buffer before the
\* placeholder enters the text: the call ends in the last of its steps, and in
\* no step, intermediate or final, has the call added more placeholders to the
\* text than entries to the argument buffer.
C16_ValueBeforePlaceholder ==
    (last.op = "push_bind" /\ is_some(last.pre.arguments)) =>
        LET t == push_bind_steps(dialect, last.pre, last.arg[1]) IN
        /\ t[1] = last.pre
        /\ t[Len(t)] = qb
        /\ \A i \in 1..Len(t) :
              /\ is_some(t[i].arguments)
              /\ Cardinality(Marks(dialect, t[i].query))
                    - Cardinality(Marks(dialect, last.pre.query))
                 <= Len(args(t[i])) - Len(args(last.pre))

\* C16 witness: a push_bind that returned, through an intermediate state that
\* holds the value and not yet the placeholder.
C16_Witness ==
    /\ last.op = "push_bind" /\ last.res = "ok"
    /\ LET t == push_bind_steps(dialect, last.pre, last.arg[1]) IN
       /\ Len(t) = 3
       /\ t[2].query = last.pre.query
       /\ Len(args(t[2])) = Len(args(last.pre)) + 1
       /\ Cardinality(Marks(dialect, qb.query))
             = Cardinality(Marks(dialect, last.pre.query)) + 1

\* C17: reset() returns in every state, the Finalized one included, and leaves
\* a present, empty argument buffer, so that no mutating operation applied
\* right after it is refused by the sanity check.
C17_ResetAlwaysRecovers ==
    last.op = "reset" =>
        /\ last.res = "ok"
        /\ qb.live
        /\ qb.arguments = Some(<<>>)
        /\ sanity_check(qb)
        /\ \A s \in Lits : push(qb, s).res = "ok"
        /\ \A value \in BindInputs : push_bind(dialect, qb, value).res # "panic_check"
        /\ \A f \in Fragments(dialect) : push_fragment(dialect, qb, f).res # "panic_check"
        /\ \A sep \in Separators :
              LET v == separated(qb, sep) IN
              /\ \A s \in Lits :
                    /\ Separated_push(v, qb, s).res = "ok"
                    /\ Separated_push_unseparated(v, qb, s).res = "ok"
              /\ \A value \in BindInputs :
                    /\ Separated_push_bind(dialect, v, qb, value).res # "panic_check"
                    /\ Separated_push_bind_unseparated(dialect, v, qb, value).res
                          # "panic_check"

\* C17 witness: reset() on a Finalized builder whose text had grown.
C17_Witness ==
    /\ last.op = "reset" /\ last.res = "ok"
    /\ OnFinalized
    /\ Len(last.pre.query) > last.pre.init_len
    /\ qb.arguments = Some(<<>>)
    /\ Len(qb.query) = qb.init_len

Unseparated == {"Separated::push_unseparated", "Separated::push_bind_unseparated"}

RECURSIVE Plain(_, _, _)
\* The text of a list of view calls written one after the other with nothing
\* in between: literals as given, bound values as placeholders numbered
\* from a + 1.
Plain(d, log, a) ==
    IF log = <<>> THEN <<>>
    ELSE LET n == Len(log)
             e == log[n]
             nb == Cardinality({k \in 1..n : log[k].m \in
                       {"Separated::push_bind", "Separated::push_bind_unseparated"}})
             item == IF e.m \in {"Separated::push", "Separated::push_unseparated"}
                     THEN e.x ELSE Token(d, a + nb)
         IN  Plain(d, SubSeq(log, 1, n - 1), a) \o item

\* C18: the unseparated pushes leave push_separator as it is. The flag of a
\* view is set exactly when a Separated::push or Separated::push_bind has
\* returned on it, whatever unseparated pushes came before or after; and on a
\* fresh view, unseparated pushes followed by the first Separated::push or
\* Separated::push_bind append their texts with no separator in between.
C18_UnseparatedKeepsFlag ==
    view.active =>
        /\ view.push_separator =
              (\E k \in 1..Len(view.log) : view.log[k].m \notin Unseparated)
        /\ (/\ ~view.unwound /\ Len(view.log) >= 2
            /\ \A k \in 1..(Len(view.log) - 1) : view.log[k].m \in Unseparated
            /\ view.log[Len(view.log)].m \notin Unseparated) =>
              Appended = Plain(dialect, view.log, view.astart)

\* C18 witness: an unseparated push on a fresh view, then the first
\* Separated::push_bind, then another unseparated push; the flag stays set.
C18_Witness ==
    /\ view.active /\ ~view.unwound /\ Len(view.log) = 3
    /\ view.log[1].m = "Separated::push_unseparated"
    /\ view.log[2].m = "Separated::push_bind"
    /\ view.log[3].m = "Separated::push_unseparated"
    /\ last.op = "Separated::push_unseparated" /\ last.res = "ok"
    /\ view.push_separator
    /\ Appended = Plain(dialect, view.log, view.astart)

IsPrefix(p, s) == Len(p) <= Len(s) /\ SubSeq(s, 1, Len(p)) = p

\* C19: in every reachable state of a live builder the text is at least
\* init_len long and starts with the initial text given at construction;
\* push, push_bind, push_fragment and the Separated methods only append at
\* the end, and reset() truncates exactly to init_len.
C19_InitialTextKept ==
    qb.live =>
        /\ qb.init_len = Len(init)
        /\ Len(qb.query) >= qb.init_len
        /\ SubSeq(qb.query, 1, qb.init_len) = init
        /\ last.op \in MutatingOps => IsPrefix(last.pre.query, qb.query)
        /\ last.op = "reset" =>
              /\ Len(qb.query) = qb.init_len
              /\ qb.query = SubSeq(last.pre.query, 1, last.pre.init_len)

\* C19 witness: reset() cuts a grown text back to a non-empty initial text.
C19_Witness ==
    /\ qb.live /\ last.op = "reset"
    /\ init # <<>>
    /\ Len(last.pre.query) > last.pre.init_len + 1
    /\ qb.query = init

====
